---- MODULE Spec2Model ----
(***************************************************************************)
(* Opportunity scoring pipeline of arvindm84/MadData.                      *)
(*                                                                         *)
(* Files are tables (sequences of rows).  Numbers are fixed point:         *)
(*   - ratios in [0,1] (business_score, positive_ratio, saturation_score)  *)
(*     are integers in thousandths;                                        *)
(*   - a matched sentiment is an integer in 1/20000 (thousandths * 20),    *)
(*     which keeps the distance blend k/20 exact;                          *)
(*   - percentages of the final table are integers in tenths of a point;   *)
(*   - coordinates are arc lengths in km along one meridian (equal lon),   *)
(*     where the haversine formula reduces to R * |dlat|.                  *)
(* round(x, n) is Python's round-half-even on the exact value.             *)
(***************************************************************************)
EXTENDS Integers, Sequences, FiniteSets, TLC

VARIABLES
    lots,           \* enriched vacant-lot layer (input of the composers)
    business_df,    \* data/processed/business_scores.csv
    sentiment_df,   \* sentiment_by_area_business.json
    transcript_df,  \* transcript_sentiment.json: File(rows) or Missing
    trends_list,    \* trends_demand_score.json
    final_scores,   \* final_scores.csv / .json: [schema, rows]
    stage,          \* last stage run
    outcome,        \* how it ended: "ok", "noop" or the exception raised
    probe,          \* arguments of a direct call of find_closest_sentiment
    match,          \* its result
    crs,            \* coordinate reference system of each spatial layer
    listing,        \* a row of the business layer given to categorize_business
    assigned_category,  \* the category it returned
    files,          \* the files check_pipeline looks at, by path
    report          \* what check_pipeline printed: files found, tally, verdict

vars == <<lots, business_df, sentiment_df, transcript_df, trends_list,
          final_scores, stage, outcome, probe, match, crs, listing, assigned_category,
          files, report>>

----------------------------------------------------------------------------
\* Bounds of the model
NumLots == 2
MaxCorpus == 1
MaxMatchCorpus == 2

\* Null values: NaN is a float null, None an object null (a JSON column
\* whose values are all null stays an object column of None).
NaN == 0 - 1
None == 0 - 2
IsNull(x) == x = NaN \/ x = None

\* A JSON file: absent, or the array it holds
Missing == [exists |-> FALSE, rows |-> << >>]
File(rows) == [exists |-> TRUE, rows |-> rows]

Abs(x) == IF x < 0 THEN 0 - x ELSE x
Min2(a, b) == IF b < a THEN b ELSE a
Max2(a, b) == IF b > a THEN b ELSE a

\* round(n / d) to an integer, ties to even (n >= 0, d > 0)
Round(n, d) ==
    LET q == n \div d
        r == n % d
    IN  IF 2 * r < d THEN q
        ELSE IF 2 * r > d THEN q + 1
        ELSE IF q % 2 = 0 THEN q ELSE q + 1

----------------------------------------------------------------------------
\* The lexicon (three of its fourteen entries, order kept, catch-all last)
CATEGORIES == <<"coffee shop", "bar", "general business">>

RealCategories == {"coffee shop", "bar"}

SeqToSet(s) == {s[i] : i \in 1..Len(s)}

----------------------------------------------------------------------------
\* scoring/probability_score.py

max_distance_km == 15
inf == 1000000

\* (variant: the signed difference of the latitudes, without the squares)
haversine_distanceSigned(lat1, lon1, lat2, lon2) ==
    IF IsNull(lat1) \/ IsNull(lon1) \/ IsNull(lat2) \/ IsNull(lon2) THEN NaN
    ELSE lat2 - lat1

\* All points of the model lie on one meridian (lon1 = lon2), where
\* a = sin^2(dlat/2), c = |dlat| and R*c = |lat2 - lat1| with lat kept as
\* R * radians(latitude), i.e. km of arc.  A null coordinate gives nan.
haversine_distance(lat1, lon1, lat2, lon2) ==
    IF IsNull(lat1) \/ IsNull(lon1) \/ IsNull(lat2) \/ IsNull(lon2) THEN NaN
    ELSE Abs(lat2 - lat1)

\* A sentiment value in 1/20000 from a ratio in thousandths (nulls kept)
Fine(s) == IF IsNull(s) THEN s ELSE 20 * s

\* positive_ratio as the DataFrame holds it
ColumnValue(df, v) ==
    IF v # NaN THEN v
    ELSE IF \A i \in 1..Len(df) : df[i].positive_ratio = NaN THEN None ELSE NaN

Raised(e) == [raised |-> e, location_tag |-> "", sentiment |-> NaN, distance |-> 0]
Returned(t, s, d) == [raised |-> "", location_tag |-> t, sentiment |-> s, distance |-> d]

\* (variant: the comparison of line 78 as <=, so the last of equal records wins)
RECURSIVE ScanMatchesLastWins(_, _, _, _, _)
ScanMatchesLastWins(lat, lon, matches, i, best) ==
    IF i > Len(matches) THEN best
    ELSE LET row == matches[i]
             dist == haversine_distance(lat, lon, row.lat, row.lon)
         IN  IF dist # NaN /\ dist <= best.distance
             THEN ScanMatchesLastWins(lat, lon, matches, i + 1,
                      [distance |-> dist, location_tag |-> row.location_tag,
                       sentiment |-> row.positive_ratio])
             ELSE ScanMatchesLastWins(lat, lon, matches, i + 1, best)

\* The loop of lines 76-82 from row i on
RECURSIVE ScanMatches(_, _, _, _, _)
ScanMatches(lat, lon, matches, i, best) ==
    IF i > Len(matches) THEN best
    ELSE LET row == matches[i]
             dist == haversine_distance(lat, lon, row.lat, row.lon)
         IN  IF dist # NaN /\ dist < best.distance   \* nan < x is False
             THEN ScanMatches(lat, lon, matches, i + 1,
                      [distance |-> dist, location_tag |-> row.location_tag,
                       sentiment |-> row.positive_ratio])
             ELSE ScanMatches(lat, lon, matches, i + 1, best)

\* (variant: line 87 without its min(1.0, ...))
DiscountUncapped(best_sentiment, best_distance) ==
    IF best_distance > max_distance_km
    THEN LET k == best_distance - max_distance_km
         IN  IF best_sentiment = NaN THEN NaN
             ELSE best_sentiment * (20 - k) + 500 * k
    ELSE Fine(best_sentiment)

\* Lines 85-88; blend_factor = k / 20
Discount(best_sentiment, best_distance) ==
    IF best_distance > max_distance_km
    THEN LET k == Min2(20, best_distance - max_distance_km)
         IN  IF best_sentiment = NaN THEN NaN
             ELSE best_sentiment * (20 - k) + 500 * k
    ELSE Fine(best_sentiment)

find_closest_sentiment(lat, lon, business_type, df) ==
    IF df = << >> THEN Raised("KeyError")   \* DataFrame([]) has no column
    ELSE
    LET matches == SelectSeq(df, LAMBDA r : r.business_type = business_type)
    IN  IF Len(matches) = 0 THEN Returned("no_data", 10000, 999)
        ELSE
        LET best == ScanMatches(lat, lon, matches, 1,
                        [distance |-> inf, location_tag |-> "None", sentiment |-> 500])
            s == ColumnValue(df, best.sentiment)
        IN  IF best.distance > max_distance_km /\ s = None
            THEN Raised("TypeError")
            ELSE Returned(best.location_tag, Discount(s, best.distance), best.distance)

----------------------------------------------------------------------------
\* main(), lines 132-136: the dict of the trends list and the types kept
trends_data(trends) ==
    [bt \in {trends[i].business_type : i \in 1..Len(trends)} |->
        LET hits == {i \in 1..Len(trends) : trends[i].business_type = bt}
        IN  trends[CHOOSE i \in hits : \A j \in hits : j <= i].demand_score]

\* (variant: line 136 without its filter)
business_typesUnfiltered(trends) ==
    LET first == SelectSeq([i \in 1..Len(trends) |-> i],
                     LAMBDA i : \A j \in 1..(i - 1) :
                         trends[j].business_type # trends[i].business_type)
    IN  [i \in 1..Len(first) |-> trends[first[i]].business_type]

\* The keys of the dict in insertion order, kept when their score is > 0
business_types(trends) ==
    LET first == SelectSeq([i \in 1..Len(trends) |-> i],
                     LAMBDA i : \A j \in 1..(i - 1) :
                         trends[j].business_type # trends[i].business_type)
        kept == SelectSeq(first,
                    LAMBDA i : trends_data(trends)[trends[i].business_type] > 0)
    IN  [i \in 1..Len(kept) |-> trends[kept[i]].business_type]

\* trends_data.get(business_type, 25)
DemandOf(trends, bt) ==
    IF bt \in DOMAIN trends_data(trends) THEN trends_data(trends)[bt] ELSE 25

\* Lines 191-196 on values in 1/20000: 100 * 20000 * raw_probability
raw_probability(base, reddit, transcript, trends_demand) ==
    30 * base + 25 * reddit + 25 * transcript + 20 * trends_demand

\* (variant: the calibration of fix_nulls.py, round(20 + raw * 72, 1))
calibrated_probability_20_92(raw) == Round(5000000 + 9 * raw, 25000)

\* Lines 199-200, in tenths: round(25 + raw * 65, 1)
calibrated_probability(raw) == Round(10000000 + 13 * raw, 40000)

\* Lines 159-216 for one row of business_df and one business type
ScoreRow(row, business_type, sentiment, transcript, trends) ==
    LET m == find_closest_sentiment(row.lat, row.lon, business_type, sentiment)
        useT == transcript.exists /\ Len(transcript.rows) > 0
        t == IF useT
             THEN find_closest_sentiment(row.lat, row.lon, business_type, transcript.rows)
             ELSE Returned("no_data", 10000, 999)
        transcript_sentiment == IF t.location_tag # "no_data" THEN t.sentiment ELSE 10000
        transcript_location == IF t.location_tag # "no_data" THEN t.location_tag ELSE "no_data"
        demand == DemandOf(trends, business_type)
        base == Fine(row.business_score)
        anyNaN == base = NaN \/ m.sentiment = NaN \/ transcript_sentiment = NaN
        final == IF anyNaN THEN NaN
                 ELSE calibrated_probability(
                          raw_probability(base, m.sentiment, transcript_sentiment, 200 * demand))
    IN  IF m.raised # "" THEN [raised |-> m.raised, row |-> << >>]
        ELSE IF t.raised # "" THEN [raised |-> t.raised, row |-> << >>]
        ELSE IF m.sentiment = None \/ transcript_sentiment = None
        THEN [raised |-> "TypeError", row |-> << >>]
        ELSE [raised |-> "", row |->
             [id |-> row.id, lat |-> row.lat, lon |-> row.lon,
              business_type |-> business_type,
              final_probability |-> final,
              base_business_score |-> row.business_score,
              reddit_sentiment_score |->
                  IF m.sentiment = NaN THEN NaN ELSE Round(m.sentiment, 20),
              transcript_sentiment_score |->
                  IF transcript_sentiment = NaN THEN NaN ELSE Round(transcript_sentiment, 20),
              trends_demand_score |-> 10 * demand,
              saturation_score |-> row.saturation_score,
              matched_reddit_location |-> m.location_tag,
              matched_transcript_location |-> transcript_location,
              distance_to_sentiment_km |-> m.distance]]

\* The nested loops of lines 146-216, in order
RECURSIVE Results(_, _, _, _, _, _)
Results(business, types, sentiment, transcript, trends, n) ==
    \* n counts the pairs (row, type) already scored
    IF n >= Len(business) * Len(types) THEN << >>
    ELSE LET row == business[(n \div Len(types)) + 1]
             bt == types[(n % Len(types)) + 1]
         IN  <<ScoreRow(row, bt, sentiment, transcript, trends)>>
             \o Results(business, types, sentiment, transcript, trends, n + 1)

\* sort_values(key, ascending=False) as a permutation of 1..Len(keys):
\* descending, nulls last, equal keys in their order of arrival
Before(a, b) == a # NaN /\ (b = NaN \/ a > b)

RECURSIVE InsertIndex(_, _, _)
InsertIndex(keys, sorted, i) ==
    IF sorted = << >> THEN <<i>>
    ELSE IF Before(keys[i], keys[Head(sorted)])
         THEN <<i>> \o sorted
         ELSE <<Head(sorted)>> \o InsertIndex(keys, Tail(sorted), i)

RECURSIVE SortedIndices(_, _)
SortedIndices(keys, n) ==
    IF n = 0 THEN << >> ELSE InsertIndex(keys, SortedIndices(keys, n - 1), n)

SortDescending(rows, keys) ==
    LET perm == SortedIndices(keys, Len(keys))
    IN  [i \in 1..Len(rows) |-> rows[perm[i]]]

\* drop_duplicates(subset, keep="first") on the key of each row
\* (variant: keep="last")
DropDuplicatesKeepLast(rows, keys) ==
    LET idx == SelectSeq([i \in 1..Len(rows) |-> i],
                   LAMBDA i : \A j \in (i + 1)..Len(rows) : keys[j] # keys[i])
    IN  [i \in 1..Len(idx) |-> rows[idx[i]]]

DropDuplicates(rows, keys) ==
    LET idx == SelectSeq([i \in 1..Len(rows) |-> i],
                   LAMBDA i : \A j \in 1..(i - 1) : keys[j] # keys[i])
    IN  [i \in 1..Len(idx) |-> rows[idx[i]]]

Column(rows, name) == [i \in 1..Len(rows) |-> rows[i][name]]

FirstRaised(results) ==
    LET bad == {i \in 1..Len(results) : results[i].raised # ""}
    IN  IF bad = {} THEN ""
        ELSE results[CHOOSE i \in bad : \A j \in bad : i <= j].raised

\* main(): what it raises, or "ok" and the table it saves
main(business, sentiment, transcript, trends) ==
    LET results == Results(business, business_types(trends), sentiment, transcript, trends, 0)
        raised == FirstRaised(results)
    IN  IF raised # "" THEN [outcome |-> raised, rows |-> << >>]
        ELSE IF results = << >> THEN [outcome |-> "KeyError", rows |-> << >>]
        ELSE LET rows == Column(results, "row")
             IN  [outcome |-> "ok",
                  rows |-> SortDescending(rows, Column(rows, "final_probability"))]

----------------------------------------------------------------------------
\* scoring/fix_nulls.py

\* Lines 54-55 on percentages in tenths: round(20 + raw * 72, 1)
recalculated_probability(base_business, sentiment, trends) ==
    Round(500000 + 18 * (40 * base_business + 40 * sentiment + 20 * trends), 2500)

\* Lines 46-58 for one row of the null mask
FixRow(r) ==
    LET base_business == IF r.base_business_score = NaN THEN 500 ELSE r.base_business_score
        sentiment == IF r.sentiment_score # NaN THEN r.sentiment_score ELSE 500
        trends == IF r.trends_demand_score # NaN THEN r.trends_demand_score ELSE 250
    IN  [r EXCEPT !.base_business_score = base_business,
                  !.final_probability =
                      recalculated_probability(base_business, sentiment, trends)]

\* (variant: every row is taken for a null row)
null_maskEveryRow(r) == TRUE

null_mask(r) == r.final_probability = NaN \/ r.base_business_score = NaN

\* main(): what it raises, "noop" for the early return, or "ok" and the table saved
fix_nulls(table) ==
    IF ~table.exists THEN [outcome |-> "FileNotFoundError", rows |-> << >>]
    ELSE IF \A i \in 1..Len(table.rows) : ~null_mask(table.rows[i])
    THEN [outcome |-> "noop", rows |-> table.rows]
    ELSE IF "sentiment_score" \notin table.columns
    THEN [outcome |-> "KeyError", rows |-> table.rows]
    ELSE [outcome |-> "ok",
          rows |-> [i \in 1..Len(table.rows) |->
                       IF null_mask(table.rows[i]) THEN FixRow(table.rows[i])
                       ELSE table.rows[i]]]

----------------------------------------------------------------------------
\* fix_final_scores.py

fix_final_scores(table) ==
    IF ~table.exists THEN [outcome |-> "SystemExit", rows |-> << >>]
    ELSE LET df == table.rows
             df_clean == DropDuplicates(df,
                             [i \in 1..Len(df) |-> <<df[i].id, df[i].business_type>>])
         IN  [outcome |-> "ok",
              rows |-> SortDescending(df_clean, Column(df_clean, "final_probability"))]

----------------------------------------------------------------------------
\* scripts/business_score.py

\* Strings that are searched are sequences of one-character strings; a field
\* of a listing is such a string or null
NullText == [null |-> TRUE, chars |-> << >>]
Text(chars) == [null |-> FALSE, chars |-> chars]

UpperCase == <<"A","B","C","D","E","F","G","H","I","J","K","L","M","N","O","P","Q","R","S","T","U","V","W","X","Y","Z">>
LowerCase == <<"a","b","c","d","e","f","g","h","i","j","k","l","m","n","o","p","q","r","s","t","u","v","w","x","y","z">>

\* str(value): the text of a null is "nan"
str(value) == IF value.null THEN <<"n","a","n">> ELSE value.chars

\* str.lower()
ToLower ==
    [c \in {UpperCase[k] : k \in 1..Len(UpperCase)} |->
        LowerCase[CHOOSE k \in 1..Len(UpperCase) : UpperCase[k] = c]]

lower(chars) ==
    [i \in 1..Len(chars) |->
        IF chars[i] \in DOMAIN ToLower THEN ToLower[chars[i]] ELSE chars[i]]

\* kw in text
Occurs(kw, text) ==
    \E i \in 0..(Len(text) - Len(kw)) : SubSeq(text, i + 1, i + Len(kw)) = kw

\* Lines 8-23: CATEGORIES.items(), the categories in dictionary order with
\* their keywords
Lexicon ==
    <<
     [category |-> "coffee shop",
      keywords |-> <<
          <<"c","o","f","f","e","e">>,
          <<"c","a","f","e">>,
          <<"e","s","p","r","e","s","s","o">>,
          <<"l","a","t","t","e">>,
          <<"c","a","p","p","u","c","c","i","n","o">>>>],
     [category |-> "restaurant",
      keywords |-> <<
          <<"r","e","s","t","a","u","r","a","n","t">>,
          <<"f","o","o","d">>,
          <<"e","a","t">>,
          <<"d","i","n","i","n","g">>,
          <<"l","u","n","c","h">>,
          <<"d","i","n","n","e","r">>,
          <<"b","r","u","n","c","h">>>>],
     [category |-> "pharmacy",
      keywords |-> <<
          <<"p","h","a","r","m","a","c","y">>,
          <<"d","r","u","g","s","t","o","r","e">>,
          <<"p","r","e","s","c","r","i","p","t","i","o","n","s">>,
          <<"C","V","S">>,
          <<"W","a","l","g","r","e","e","n","s">>,
          <<"m","e","d","i","c","i","n","e">>>>],
     [category |-> "grocery store",
      keywords |-> <<
          <<"g","r","o","c","e","r","y">>,
          <<"g","r","o","c","e","r","i","e","s">>,
          <<"s","u","p","e","r","m","a","r","k","e","t">>,
          <<"p","r","o","d","u","c","e">>,
          <<"W","h","o","l","e"," ","F","o","o","d","s">>,
          <<"A","l","d","i">>>>],
     [category |-> "bar",
      keywords |-> <<
          <<"b","a","r">>,
          <<"d","r","i","n","k","s">>,
          <<"b","e","e","r">>,
          <<"c","o","c","k","t","a","i","l","s">>,
          <<"n","i","g","h","t","l","i","f","e">>,
          <<"b","r","e","w","e","r","y">>,
          <<"p","u","b">>>>],
     [category |-> "gym",
      keywords |-> <<
          <<"g","y","m">>,
          <<"f","i","t","n","e","s","s">>,
          <<"w","o","r","k","o","u","t">>,
          <<"e","x","e","r","c","i","s","e">>,
          <<"y","o","g","a">>,
          <<"c","r","o","s","s","f","i","t">>>>],
     [category |-> "late night food",
      keywords |-> <<
          <<"l","a","t","e"," ","n","i","g","h","t">>,
          <<"2","a","m">>,
          <<"m","i","d","n","i","g","h","t">>,
          <<"a","f","t","e","r"," ","h","o","u","r","s">>,
          <<"o","p","e","n"," ","l","a","t","e">>>>],
     [category |-> "bakery",
      keywords |-> <<
          <<"b","a","k","e","r","y">>,
          <<"b","r","e","a","d">>,
          <<"p","a","s","t","r","y">>,
          <<"d","o","n","u","t","s">>,
          <<"c","r","o","i","s","s","a","n","t">>,
          <<"b","a","k","e","d"," ","g","o","o","d","s">>>>],
     [category |-> "convenience store",
      keywords |-> <<
          <<"c","o","n","v","e","n","i","e","n","c","e">>,
          <<"c","o","r","n","e","r"," ","s","t","o","r","e">>,
          <<"b","o","d","e","g","a">>,
          <<"7","-","e","l","e","v","e","n">>>>],
     [category |-> "coworking space",
      keywords |-> <<
          <<"c","o","w","o","r","k","i","n","g">>,
          <<"c","o","w","o","r","k">>,
          <<"w","o","r","k","s","p","a","c","e">>,
          <<"W","e","W","o","r","k">>,
          <<"s","h","a","r","e","d"," ","o","f","f","i","c","e">>>>],
     [category |-> "daycare",
      keywords |-> <<
          <<"d","a","y","c","a","r","e">>,
          <<"c","h","i","l","d","c","a","r","e">>,
          <<"n","u","r","s","e","r","y">>,
          <<"p","r","e","s","c","h","o","o","l">>,
          <<"k","i","d","s">>>>],
     [category |-> "hardware store",
      keywords |-> <<
          <<"h","a","r","d","w","a","r","e">>,
          <<"t","o","o","l","s">>,
          <<"H","o","m","e"," ","D","e","p","o","t">>,
          <<"l","u","m","b","e","r">>,
          <<"p","l","u","m","b","i","n","g">>>>],
     [category |-> "urgent care",
      keywords |-> <<
          <<"u","r","g","e","n","t"," ","c","a","r","e">>,
          <<"c","l","i","n","i","c">>,
          <<"w","a","l","k","-","i","n">>,
          <<"e","m","e","r","g","e","n","c","y">>,
          <<"d","o","c","t","o","r">>>>],
     [category |-> "general business",
      keywords |-> <<>>]
    >>

tags_to_check == <<"amenity", "shop", "leisure", "healthcare">>

\* Lines 27-32: the searched text, the lowered name followed by each tag value
\* that is neither empty nor "nan", each after one space
RECURSIVE SearchText(_, _, _)
SearchText(row, text, k) ==
    IF k > Len(tags_to_check) THEN text
    ELSE LET val == lower(str(row[tags_to_check[k]]))
         IN  SearchText(row,
                        IF val # << >> /\ val # <<"n","a","n">>
                        THEN text \o <<" ">> \o val ELSE text,
                        k + 1)

\* Lines 25-37
categorize_business(row) ==
    LET text == SearchText(row, lower(str(row.name)), 1)
        hits == {c \in 1..Len(Lexicon) :
                    \E k \in 1..Len(Lexicon[c].keywords) :
                        Occurs(lower(Lexicon[c].keywords[k]), text)}
    IN  IF hits = {} THEN "general business"
        ELSE Lexicon[CHOOSE c \in hits : \A d \in hits : c <= d].category

\* Lines 68-90 and business_score.py lines 21-57: the reference systems
LayerNames == {"Lots", "Business", "Parcels", "Census"}
NoCrs == "None"
target_crs == "EPSG:32616"
Projected == [n \in LayerNames |-> target_crs]

\* Lines 74-76
set_crs(layer_crs) == IF layer_crs = NoCrs THEN "EPSG:4326" ELSE layer_crs

\* GeoDataFrame.to_crs: a layer without a reference system cannot be
\* transformed (ValueError)
to_crs(layer_crs, target) == IF layer_crs = NoCrs THEN "ValueError" ELSE target


RECURSIVE Flatten(_)
Flatten(ss) == IF ss = << >> THEN << >> ELSE Head(ss) \o Flatten(Tail(ss))

RECURSIVE SumSeq(_)
SumSeq(q) == IF q = << >> THEN 0 ELSE Head(q) + SumSeq(Tail(q))

\* gpd.sjoin(left, right, how="left"): one row per match, one null row if none
\* (right names the field holding the values of the features a lot falls in)
LeftJoin(layer, right, column) ==
    Flatten([i \in 1..Len(layer) |->
        IF layer[i][right] = << >>
        THEN <<[c \in {column} |-> NaN] @@ layer[i]>>
        ELSE [k \in 1..Len(layer[i][right]) |->
                 [c \in {column} |-> layer[i][right][k]] @@ layer[i]]])

\* A join without fallback: nulls are kept
FillNaSkipped(rows, column, value) == rows

FillNa(rows, column, value) ==
    [i \in 1..Len(rows) |->
        IF rows[i][column] = NaN THEN [rows[i] EXCEPT ![column] = value] ELSE rows[i]]

\* The tax join keeping the first match of each lot instead of the highest
TaxJoinFirstMatch(layer) ==
    LET joined == LeftJoin(layer, "parcel_taxes", "TotalTaxes")
    IN  DropDuplicates(joined, Column(joined, "id"))

\* Lines 103-104: the tax join and its tie-break
TaxJoin(layer) ==
    LET joined == LeftJoin(layer, "parcel_taxes", "TotalTaxes")
        ranked == SortDescending(joined, Column(joined, "TotalTaxes"))
    IN  DropDuplicates(ranked, Column(ranked, "id"))

\* Lines 102-111: the tax join and its fallback, then the census join and its
\* fallback
EnrichLots(layer, city) ==
    LET taxed == FillNa(TaxJoin(layer), "TotalTaxes", city.avg_city_tax)
        census == LeftJoin(taxed, "tract_incomes", "Median_Income")
    IN  FillNa(census, "Median_Income", city.avg_city_income)

\* Number of listings of all categories within 0.25 mile and within 0.5 mile
Within400(lot) ==
    SumSeq([i \in 1..Len(CATEGORIES) |->
               IF CATEGORIES[i] \in DOMAIN lot.category_counts
               THEN lot.category_counts[CATEGORIES[i]] ELSE 0]) + lot.other_400

total_nearby(lot) == Within400(lot) + lot.other_804

\* Lines 130-135, in tenths of a point (the model's tax and income values
\* divide exactly)
pop_bonus(lot) == Min2(150, 3 * total_nearby(lot))

upkeep_penalty(lot, city) ==
    LET avg == IF city.avg_city_tax > 0 THEN city.avg_city_tax ELSE 1
    IN  Min2(200, Max2(0, ((lot.TotalTaxes - avg) * 100) \div avg))

demo_bonus(lot, city) ==
    LET avg == IF city.avg_city_income > 0 THEN city.avg_city_income ELSE 1
    IN  IF lot.Median_Income > avg
        THEN Min2(150, Max2(0, ((lot.Median_Income - avg) * 150) \div avg))
        ELSE 0

\* Line 139
CompetitorCount(lot, category) ==
    IF category # "general business" /\ category \in DOMAIN lot.category_counts
    THEN lot.category_counts[category] ELSE 0

\* The additive score without its floor and ceiling
probUnclamped(lot, category, city) ==
    850 - (CompetitorCount(lot, category) * 200) - upkeep_penalty(lot, city)
    + pop_bonus(lot) + demo_bonus(lot, city)

\* Lines 142-143, in tenths of a point
prob(lot, category, city) ==
    LET raw == 850 - (CompetitorCount(lot, category) * 200) - upkeep_penalty(lot, city)
               + pop_bonus(lot) + demo_bonus(lot, city)
    IN  Max2(50, Min2(980, raw))

\* (variant: the competition phrase chosen on count <= 1)
reason_partsLenient(lot, category, city) ==
    LET count == CompetitorCount(lot, category)
    IN  (IF count <= 1
         THEN <<[phrase |-> "High demand", category |-> category, count |-> 0]>>
         ELSE <<[phrase |-> "Moderate competition", category |-> category,
                 count |-> count]>>)
        \o (IF pop_bonus(lot) > 100 THEN <<[phrase |-> "Excellent foot traffic"]>> ELSE << >>)
        \o (IF demo_bonus(lot, city) > 100 THEN <<[phrase |-> "Perfect demographic fit"]>>
            ELSE << >>)
        \o (IF upkeep_penalty(lot, city) > 100 THEN <<[phrase |-> "Caution"]>> ELSE << >>)

\* Lines 146-152: the phrases of the rationale, in order (bonuses and penalty
\* in tenths of a point)
reason_parts(lot, category, city) ==
    LET count == CompetitorCount(lot, category)
    IN  (IF count = 0
         THEN <<[phrase |-> "High demand", category |-> category, count |-> 0]>>
         ELSE <<[phrase |-> "Moderate competition", category |-> category,
                 count |-> count]>>)
        \o (IF pop_bonus(lot) > 100 THEN <<[phrase |-> "Excellent foot traffic"]>> ELSE << >>)
        \o (IF demo_bonus(lot, city) > 100 THEN <<[phrase |-> "Perfect demographic fit"]>>
            ELSE << >>)
        \o (IF upkeep_penalty(lot, city) > 100 THEN <<[phrase |-> "Caution"]>> ELSE << >>)

\* Lines 161-170: the CSV row of one lot and category
CsvRow(lot, category, city) ==
    [id |-> lot.id,
     business_type |-> category,
     saturation_score |-> Max2(0, 1000 - CompetitorCount(lot, category) * 200),
     traffic_score |-> Min2(1000, 20 * total_nearby(lot)),
     demo_score |->
         Min2(1000, Round(1000 * lot.Median_Income,
                          IF city.avg_city_income > 0 THEN city.avg_city_income * 2 ELSE 1)),
     business_score |-> prob(lot, category, city)]

\* Line 205: merge(coords, on="id"), one output row per pair of equal ids
MergeCoords(csv, enriched) ==
    Flatten([i \in 1..Len(csv) |->
        LET same == SelectSeq(enriched, LAMBDA lot : lot.id = csv[i].id)
        IN  [k \in 1..Len(same) |->
                [lat |-> same[k].lat, lon |-> same[k].lon] @@ csv[i]]])

\* calculate_recommendations(): the table written to business_scores.csv
calculate_recommendations(layer, city) ==
    LET enriched == EnrichLots(layer, city)
        results_csv == Flatten([i \in 1..Len(enriched) |->
                           [c \in 1..Len(CATEGORIES) |->
                               CsvRow(enriched[i], CATEGORIES[c], city)]])
    IN  MergeCoords(results_csv, enriched)

----------------------------------------------------------------------------
\* business_score.py (one row per lot, scored for coffee shops)

\* Lines 78-82
score_saturation(count) ==
    IF count = 0 THEN 1000
    ELSE IF count = 1 THEN 700
    ELSE IF count = 2 THEN 300
    ELSE 0

\* MinMaxScaler().fit_transform on one column, nulls disregarded and kept;
\* a constant column scales to 0.  Kept to the thousandth.
MinMax(values) ==
    LET known == {values[i] : i \in {j \in 1..Len(values) : values[j] # NaN}}
        lo == CHOOSE v \in known : \A w \in known : v <= w
        hi == CHOOSE v \in known : \A w \in known : v >= w
    IN  [i \in 1..Len(values) |->
            IF values[i] = NaN \/ known = {} THEN NaN
            ELSE IF hi = lo THEN 0
            ELSE Round(1000 * (values[i] - lo), hi - lo)]

\* Lines 86-90: listings inside the 400 m buffer; a lot with none is absent
\* from the grouped counts and gets no value
traffic_count(lot) == IF Within400(lot) = 0 THEN NaN ELSE Within400(lot)

\* gpd.sjoin(left, right) with the default how="inner"
InnerJoin(layer, right, column) ==
    Flatten([i \in 1..Len(layer) |->
        [k \in 1..Len(layer[i][right]) |->
            [c \in {column} |-> layer[i][right][k]] @@ layer[i]]])

\* calculate_business_score(): the table it returns
calculate_business_score(layer) ==
    LET traffic_score == MinMax([i \in 1..Len(layer) |-> traffic_count(layer[i])])
        demo_join == InnerJoin(layer, "tract_incomes", "Median_Income")
        demo_score == MinMax(Column(demo_join, "Median_Income"))
    IN  Flatten([i \in 1..Len(layer) |->
            LET saturation == score_saturation(CompetitorCount(layer[i], "coffee shop"))
                hits == SelectSeq([k \in 1..Len(demo_join) |-> k],
                            LAMBDA k : demo_join[k].id = layer[i].id)
            IN  [h \in 1..Len(hits) |->
                    [id |-> layer[i].id,
                     business_type |-> "",
                     saturation_score |-> saturation,
                     traffic_score |-> traffic_score[i],
                     demo_score |-> demo_score[hits[h]],
                     business_score |->
                         IF traffic_score[i] = NaN THEN NaN
                         ELSE Round(saturation + traffic_score[i] + demo_score[hits[h]], 3),
                     lat |-> layer[i].lat,
                     lon |-> layer[i].lon]]])

----------------------------------------------------------------------------
\* Input domains

\* Citywide averages over the parcel and tract layers
City == [avg_city_tax |-> 1000, avg_city_income |-> 50000]

\* Competitors within 0.25 mile per category: none, or a cafe and two bars
CategoryCounts ==
    {[c \in RealCategories |-> 0],
     [c \in RealCategories |-> IF c = "coffee shop" THEN 1 ELSE 2]}

\* Lot i lies 10 km north of lot i-1.  Odd lots stand alone on an untaxed
\* parcel in an average tract; even lots stand in a busy, rich, twice-taxed spot.
LotAt(i, counts) ==
    [id |-> i, lat |-> 10 * (i - 1), lon |-> 0,
     category_counts |-> counts,
     other_400 |-> IF i % 2 = 1 THEN 0 ELSE 4,
     other_804 |-> IF i % 2 = 1 THEN 0 ELSE 40,
     parcel_taxes |-> IF i % 2 = 1 THEN << >> ELSE <<1200, 2500>>,
     tract_incomes |-> IF i % 2 = 1 THEN <<50000>> ELSE <<90000>>]

LotLayers ==
    {[i \in 1..NumLots |-> LotAt(i, cc[i])] :
        cc \in [1..NumLots -> CategoryCounts]}

PlaceName(lat) == IF lat = 0 THEN "capitol" ELSE "east side"

SentimentRecords ==
    {[location_tag |-> PlaceName(lat), business_type |-> bt,
      positive_ratio |-> pr, lat |-> lat, lon |-> 0] :
        bt \in RealCategories, pr \in {NaN, 200, 1000}, lat \in {0, 30}}

\* A record of a place without coordinates
Unlocated ==
    [location_tag |-> "somewhere", business_type |-> "coffee shop",
     positive_ratio |-> 1000, lat |-> NaN, lon |-> NaN]

\* The records of the pipeline runs: cafes rated well, or not rated, at the
\* capitol and poorly on the east side; bars rated well at the capitol
PipelineRecords ==
    {r \in SentimentRecords :
        \/ r.business_type = "coffee shop" /\ r.lat = 0 /\ r.positive_ratio # 200
        \/ r.business_type = "coffee shop" /\ r.lat = 30 /\ r.positive_ratio = 200
        \/ r.business_type = "bar" /\ r.lat = 0 /\ r.positive_ratio = 1000}
    \cup {Unlocated}

TranscriptRecords ==
    {[location_tag |-> "city hall", business_type |-> bt,
      positive_ratio |-> pr, lat |-> 0, lon |-> 0] :
        bt \in {"coffee shop"}, pr \in {1000}}

Corpora(records, n) == UNION {[1..k -> records] : k \in 0..n}

DemandScores == {0, 100}

TrendLists ==
    {<<[business_type |-> "coffee shop", demand_score |-> d1],
       [business_type |-> "bar", demand_score |-> d2],
       [business_type |-> "general business", demand_score |-> 0]>> :
        d1 \in DemandScores, d2 \in DemandScores}

\* final_scores.csv: absent, or its columns and rows
NoTable == [exists |-> FALSE, columns |-> {}, rows |-> << >>]
Table(columns, rows) == [exists |-> TRUE, columns |-> columns, rows |-> rows]

FusionColumns ==
    {"id", "lat", "lon", "business_type", "final_probability", "base_business_score",
     "reddit_sentiment_score", "transcript_sentiment_score", "trends_demand_score",
     "saturation_score", "matched_reddit_location", "matched_transcript_location",
     "distance_to_sentiment_km"}

NoProbe == [lat |-> 0, lon |-> 0, business_type |-> ""]
NoMatch == Raised("")
NoListing ==
    [name |-> NullText, amenity |-> NullText, shop |-> NullText,
     leisure |-> NullText, healthcare |-> NullText]

----------------------------------------------------------------------------
\* scripts/check_pipeline.py
\* Scores are in thousandths, coordinates in tenths of a degree.

FILES_TO_CHECK ==
    <<"data/processed/reddit_clean.csv",
      "data/processed/isthmus_clean.csv",
      "data/processed/all_text_combined.csv",
      "data/processed/sentiment_scores_raw.csv",
      "data/processed/sentiment_by_area.csv",
      "data/processed/sentiment_by_area_business.csv",
      "data/processed/sentiment_by_area_with_coords.csv",
      "data/processed/sentiment_by_area_business_with_coords.csv",
      "data/processed/sentiment_by_area.json",
      "data/processed/sentiment_by_area_business.json",
      "data/processed/trends_demand_score.json",
      "data/business_scores.csv">>

EXPECTED_BUSINESS_TYPES ==
    <<"coffee shop",
      "restaurant",
      "pharmacy",
      "grocery store",
      "bar",
      "gym",
      "late night food",
      "bakery",
      "convenience store",
      "coworking space",
      "daycare",
      "hardware store",
      "urgent care",
      "general business">>

\* Lines 60-75: the table of a file, NoTable (None) when the path does not exist
load_file(fs, filepath) ==
    IF filepath \in DOMAIN fs /\ fs[filepath].exists THEN fs[filepath] ELSE NoTable

\* Lines 38-41
NoTally == [checks_run |-> 0, checks_passed |-> 0, checks_failed |-> 0,
            failed_checks |-> << >>]

\* Lines 44-57
check(tally, name, condition) ==
    IF condition
    THEN [tally EXCEPT !.checks_run = @ + 1, !.checks_passed = @ + 1]
    ELSE [tally EXCEPT !.checks_run = @ + 1, !.checks_failed = @ + 1,
                       !.failed_checks = Append(@, name)]

\* A sequence of [name, condition] given to check() in order
RECURSIVE RunChecks(_, _)
RunChecks(tally, checks) ==
    IF checks = << >> THEN tally
    ELSE RunChecks(check(tally, Head(checks).name, Head(checks).condition), Tail(checks))

NoNulls(df, col) == \A i \in 1..Len(df.rows) : ~IsNull(df.rows[i][col])
\* (df[col] >= lo) & (df[col] <= hi), False on a null
AllWithin(df, col, lo, hi) ==
    \A i \in 1..Len(df.rows) :
        ~IsNull(df.rows[i][col]) /\ df.rows[i][col] >= lo /\ df.rows[i][col] <= hi
ValuesOf(df, col) == {df.rows[i][col] : i \in 1..Len(df.rows)}

\* Lines 78-95
section_1_check_files_exist(fs) ==
    SelectSeq(FILES_TO_CHECK, LAMBDA filepath : load_file(fs, filepath).exists)

\* Lines 189-200 and 225-234
CoordinateChecks(df) ==
    IF "lat" \in df.columns /\ "lon" \in df.columns
    THEN <<[name |-> "No null lat values", condition |-> NoNulls(df, "lat")],
           [name |-> "No null lon values", condition |-> NoNulls(df, "lon")],
           [name |-> "All lat values in Madison range (42.9-43.3)",
            condition |-> AllWithin(df, "lat", 429, 433)],
           [name |-> "All lon values in Madison range (-89.6 to -89.1)",
            condition |-> AllWithin(df, "lon", 0 - 896, 0 - 891)]>>
    ELSE << >>

\* Lines 129-171
section_3_check_sentiment_scores(tally, fs) ==
    LET df == load_file(fs, "data/processed/sentiment_scores_raw.csv")
        score_cols == <<"positive_score", "neutral_score", "negative_score">>
        names == <<"No nulls in positive_score", "No nulls in neutral_score",
                   "No nulls in negative_score">>
        present == SelectSeq(<<1, 2, 3>>, LAMBDA k : score_cols[k] \in df.columns)
        nulls == [j \in 1..Len(present) |->
                     [name |-> names[present[j]],
                      condition |-> NoNulls(df, score_cols[present[j]])]]
        labels == IF "sentiment_label" \in df.columns
                  THEN <<[name |-> "sentiment_label only has valid values",
                          condition |-> ValuesOf(df, "sentiment_label")
                                            \subseteq {"positive", "neutral", "negative"}]>>
                  ELSE << >>
        types == IF "business_type" \in df.columns
                 THEN <<[name |-> "business_type only has expected categories",
                         condition |-> ValuesOf(df, "business_type")
                                           \subseteq SeqToSet(EXPECTED_BUSINESS_TYPES)]>>
                 ELSE << >>
    IN  IF ~df.exists THEN tally
        ELSE RunChecks(tally, nulls \o labels \o types)

\* Lines 174-207
section_4_check_coordinates(tally, fs) ==
    LET df == load_file(fs, "data/processed/sentiment_by_area_business_with_coords.csv")
    IN  IF ~df.exists THEN tally ELSE RunChecks(tally, CoordinateChecks(df))

\* Lines 210-242
section_5_check_business_scores(tally, fs) ==
    LET df == load_file(fs, "business_scores.csv")
        saturation == IF "saturation_score" \in df.columns
                      THEN <<[name |-> "saturation_score values between 0 and 1",
                              condition |-> AllWithin(df, "saturation_score", 0, 1000)]>>
                      ELSE << >>
    IN  IF ~df.exists THEN tally
        ELSE RunChecks(tally, CoordinateChecks(df) \o saturation)

\* Lines 286-306
section_7_final_summary(tally) ==
    IF tally.checks_failed = 0 THEN "PIPELINE READY" ELSE "PIPELINE NOT READY"

\* Lines 309-321; sections 2 and 6 only print
check_pipeline(fs) ==
    LET existing_files == section_1_check_files_exist(fs)
        tally == section_5_check_business_scores(
                     section_4_check_coordinates(
                         section_3_check_sentiment_scores(NoTally, fs), fs), fs)
    IN  [existing_files |-> existing_files, tally |-> tally,
         verdict |-> section_7_final_summary(tally)]

NoFiles == [filepath \in {} |-> NoTable]
NoReport == [existing_files |-> << >>, tally |-> NoTally, verdict |-> ""]

----------------------------------------------------------------------------
\* The pipeline: the three stages that write final_scores, run in any order
\* over one snapshot of the inputs

Init ==
    /\ lots \in LotLayers
    /\ business_df \in {calculate_recommendations(lots, City),
                        calculate_business_score(lots)}
    /\ sentiment_df \in Corpora(PipelineRecords, MaxCorpus)
    /\ transcript_df \in {Missing} \cup
                         {File(c) : c \in Corpora(TranscriptRecords, MaxCorpus)}
    /\ trends_list \in TrendLists
    /\ final_scores = NoTable
    /\ stage = "input"
    /\ outcome = "none"
    /\ probe = NoProbe
    /\ match = NoMatch
    /\ crs = Projected
    /\ listing = NoListing
    /\ assigned_category = ""
    /\ files = NoFiles
    /\ report = NoReport

Inputs == <<lots, business_df, sentiment_df, transcript_df, trends_list>>

\* python scoring/probability_score.py
ProbabilityScoreMain ==
    LET run == main(business_df, sentiment_df, transcript_df, trends_list)
    IN  /\ final_scores' = IF run.outcome = "ok" THEN Table(FusionColumns, run.rows)
                           ELSE final_scores
        /\ stage' = "probability_score"
        /\ outcome' = run.outcome
        /\ UNCHANGED <<Inputs, probe, match, crs, listing, assigned_category, files, report>>

\* python scoring/fix_nulls.py
FixNullsMain ==
    LET run == fix_nulls(final_scores)
    IN  /\ final_scores' = IF run.outcome = "ok" THEN [final_scores EXCEPT !.rows = run.rows]
                           ELSE final_scores
        /\ stage' = "fix_nulls"
        /\ outcome' = run.outcome
        /\ UNCHANGED <<Inputs, probe, match, crs, listing, assigned_category, files, report>>

\* python fix_final_scores.py
FixFinalScoresMain ==
    LET run == fix_final_scores(final_scores)
    IN  /\ final_scores' = IF run.outcome = "ok" THEN [final_scores EXCEPT !.rows = run.rows]
                           ELSE final_scores
        /\ stage' = "fix_final_scores"
        /\ outcome' = run.outcome
        /\ UNCHANGED <<Inputs, probe, match, crs, listing, assigned_category, files, report>>

Next == ProbabilityScoreMain \/ FixNullsMain \/ FixFinalScoresMain

Spec == Init /\ [][Next]_vars

----------------------------------------------------------------------------
\* The Sentiment Matcher called on its own: any corpus, any lot position

MatchLats == {0, 10, 15, 20, 35, 45, 70}

InitMatch ==
    /\ sentiment_df \in Corpora(SentimentRecords, MaxMatchCorpus)
    /\ lots = << >>
    /\ business_df = << >>
    /\ transcript_df = Missing
    /\ trends_list = << >>
    /\ final_scores = NoTable
    /\ stage = "input"
    /\ outcome = "none"
    /\ probe = NoProbe
    /\ match = NoMatch
    /\ crs = Projected
    /\ listing = NoListing
    /\ assigned_category = ""
    /\ files = NoFiles
    /\ report = NoReport

FindClosestSentiment ==
    \E lat \in MatchLats, business_type \in SeqToSet(CATEGORIES) :
        /\ probe' = [lat |-> lat, lon |-> 0, business_type |-> business_type]
        /\ match' = find_closest_sentiment(lat, 0, business_type, sentiment_df)
        /\ stage' = "find_closest_sentiment"
        /\ UNCHANGED <<Inputs, final_scores, outcome, crs, listing, assigned_category,
                       files, report>>

NextMatch == FindClosestSentiment

SpecMatch == InitMatch /\ [][NextMatch]_vars

----------------------------------------------------------------------------
\* The repair stages run on a table published by the three-input scheme
\* (one sentiment_score column), before the transcript corpus existed

MaxPublished == 2

PublishedColumns ==
    {"id", "lat", "lon", "business_type", "final_probability", "base_business_score",
     "sentiment_score", "trends_demand_score"}

PublishedRow(id, business_type, final, base, sentiment, trends) ==
    [id |-> id, lat |-> 10 * (id - 1), lon |-> 0, business_type |-> business_type,
     final_probability |-> final, base_business_score |-> base,
     sentiment_score |-> sentiment, trends_demand_score |-> trends]

PublishedRows ==
    {PublishedRow(1, "coffee shop", 632, 500, 500, 1000),
     PublishedRow(1, "bar", 900, 1000, 1000, 1000),
     PublishedRow(1, "bar", NaN, 0, 0, NaN),
     PublishedRow(2, "coffee shop", NaN, NaN, 1000, 1000),
     PublishedRow(2, "bar", NaN, NaN, NaN, NaN)}

\* Published tables are ranked (nulls last) and hold one row per pair
IsRanked(rows) ==
    \A i \in 1..Len(rows), j \in 1..Len(rows) :
        i < j => ~Before(rows[j].final_probability, rows[i].final_probability)

PublishedTables ==
    {t \in UNION {[1..k -> PublishedRows] : k \in 1..MaxPublished} :
        /\ IsRanked(t)
        /\ \A i \in 1..Len(t), j \in 1..Len(t) : i # j => t[i] # t[j]}

InitPublished ==
    /\ lots \in LotLayers
    /\ business_df \in {calculate_recommendations(lots, City),
                        calculate_business_score(lots)}
    /\ sentiment_df \in {<<r>> : r \in PipelineRecords}
    /\ transcript_df = Missing
    /\ trends_list \in TrendLists
    /\ final_scores \in {Table(PublishedColumns, t) : t \in PublishedTables}
    /\ stage = "input"
    /\ outcome = "none"
    /\ probe = NoProbe
    /\ match = NoMatch
    /\ crs = Projected
    /\ listing = NoListing
    /\ assigned_category = ""
    /\ files = NoFiles
    /\ report = NoReport

SpecPublished == InitPublished /\ [][Next]_vars

----------------------------------------------------------------------------
\* The competitive-analysis stage: either composer run over surveyed layers

\* Surveys of a lot: what lies around it, the parcels its centroid intersects
\* and the tracts it lies within
Surveys ==
    {\* alone, on no parcel and in no tract
     [category_counts |-> [c \in RealCategories |-> 0],
      other_400 |-> 0, other_804 |-> 0,
      parcel_taxes |-> << >>, tract_incomes |-> << >>],
     \* a cafe and two bars nearby, on two parcels, in a rich tract
     [category_counts |-> [c \in RealCategories |-> IF c = "coffee shop" THEN 1 ELSE 2],
      other_400 |-> 4, other_804 |-> 40,
      parcel_taxes |-> <<1200, 2500>>, tract_incomes |-> <<90000>>],
     \* two cafes and three bars, a parcel without tax value listed before a
     \* taxed one, in two overlapping tracts
     [category_counts |-> [c \in RealCategories |-> IF c = "coffee shop" THEN 2 ELSE 3],
      other_400 |-> 1, other_804 |-> 10,
      parcel_taxes |-> <<NaN, 1200>>, tract_incomes |-> <<50000, 90000>>],
     \* five cafes and nothing else, heavily taxed, in a poor tract
     [category_counts |-> [c \in RealCategories |-> IF c = "coffee shop" THEN 5 ELSE 0],
      other_400 |-> 0, other_804 |-> 0,
      parcel_taxes |-> <<5000>>, tract_incomes |-> <<30000>>],
     \* no competitor in a dense and very rich area, on no parcel
     [category_counts |-> [c \in RealCategories |-> 0],
      other_400 |-> 10, other_804 |-> 50,
      parcel_taxes |-> << >>, tract_incomes |-> <<150000>>],
     \* nothing within a quarter mile, on an average parcel in an average tract
     [category_counts |-> [c \in RealCategories |-> 0],
      other_400 |-> 0, other_804 |-> 5,
      parcel_taxes |-> <<1000>>, tract_incomes |-> <<50000>>]}

SurveyedLot(i, survey) ==
    [id |-> i, lat |-> 10 * (i - 1), lon |-> 0] @@ survey

SurveyedLayers ==
    {[i \in 1..NumLots |-> SurveyedLot(i, s[i])] : s \in [1..NumLots -> Surveys]}

InitCompose ==
    /\ lots \in SurveyedLayers
    /\ crs \in [LayerNames -> {NoCrs, "EPSG:4326"}]
    /\ business_df = << >>
    /\ sentiment_df = << >>
    /\ transcript_df = Missing
    /\ trends_list = << >>
    /\ final_scores = NoTable
    /\ stage = "input"
    /\ outcome = "none"
    /\ probe = NoProbe
    /\ match = NoMatch
    /\ listing = NoListing
    /\ assigned_category = ""
    /\ files = NoFiles
    /\ report = NoReport

Untouched == <<lots, sentiment_df, transcript_df, trends_list, final_scores,
               probe, match, listing, assigned_category, files, report>>

\* python scripts/business_score.py
CalculateRecommendations ==
    LET harmonized == [n \in LayerNames |-> set_crs(crs[n])]
        projected == [n \in LayerNames |-> to_crs(harmonized[n], target_crs)]
        raised == \E n \in LayerNames : projected[n] = "ValueError"
    IN  /\ stage' = "calculate_recommendations"
        /\ outcome' = IF raised THEN "ValueError" ELSE "ok"
        /\ crs' = IF raised THEN crs ELSE projected
        /\ business_df' = IF raised THEN business_df
                          ELSE calculate_recommendations(lots, City)
        /\ UNCHANGED Untouched

\* python business_score.py: the layers are projected as read (lines 25, 46,
\* 57); the scaler rejects an empty join (line 101)
CalculateBusinessScore ==
    LET loaded == {"Lots", "Business", "Census"}
        projected == [n \in LayerNames |->
                         IF n \in loaded THEN to_crs(crs[n], target_crs) ELSE crs[n]]
        raised == \/ \E n \in loaded : projected[n] = "ValueError"
                  \/ InnerJoin(lots, "tract_incomes", "Median_Income") = << >>
    IN  /\ stage' = "calculate_business_score"
        /\ outcome' = IF raised THEN "ValueError" ELSE "ok"
        /\ crs' = IF raised THEN crs ELSE projected
        /\ business_df' = IF raised THEN business_df
                          ELSE calculate_business_score(lots)
        /\ UNCHANGED Untouched

NextCompose == CalculateRecommendations \/ CalculateBusinessScore

SpecCompose == InitCompose /\ [][NextCompose]_vars

----------------------------------------------------------------------------
\* categorize_business applied to one listing of the business layer

ListingNames ==
    {NullText, Text(<<"J","o","e","'","s">>), Text(<<"U","p"," ","L","a","t","e">>),
     Text(<<"C","o","f","f","e","e"," ","B","a","r">>), Text(<<"B","A","R","B","E","R">>),
     Text(<<"U","r","g","e","n","t">>)}

Listings ==
    {[name |-> n, amenity |-> a, shop |-> s, leisure |-> l, healthcare |-> h] :
        n \in ListingNames,
        a \in {NullText, Text(<<"c","a","f","e">>), Text(<<"n","i","g","h","t","c","l","u","b">>),
               Text(<<"p","u","b">>)},
        s \in {NullText, Text(<<"b","a","k","e","r","y">>)},
        l \in {NullText, Text(<< >>)},
        h \in {NullText, Text(<<"c","a","r","e">>)}}

InitCategorize ==
    /\ lots = << >>
    /\ business_df = << >>
    /\ sentiment_df = << >>
    /\ transcript_df = Missing
    /\ trends_list = << >>
    /\ final_scores = NoTable
    /\ stage = "input"
    /\ outcome = "none"
    /\ probe = NoProbe
    /\ match = NoMatch
    /\ crs = Projected
    /\ listing = NoListing
    /\ assigned_category = ""
    /\ files = NoFiles
    /\ report = NoReport

\* Line 114: all_businesses.apply(categorize_business, axis=1), one row
CategorizeBusiness ==
    \E row \in Listings :
        /\ listing' = row
        /\ assigned_category' = categorize_business(row)
        /\ stage' = "categorize_business"
        /\ UNCHANGED <<Inputs, final_scores, outcome, probe, match, crs, files, report>>

NextCategorize == CategorizeBusiness

SpecCategorize == InitCategorize /\ [][NextCategorize]_vars

----------------------------------------------------------------------------
\* check_pipeline run over a project directory

ScoreColumns ==
    {"positive_score", "neutral_score", "negative_score", "sentiment_label",
     "business_type"}
ScoredText(positive_score, sentiment_label) ==
    [positive_score |-> positive_score, neutral_score |-> 0, negative_score |-> 0,
     sentiment_label |-> sentiment_label, business_type |-> "coffee shop"]

\* sentiment_scores_raw.csv: missing, clean, with a null score or with an
\* unknown label
RawScoreFiles ==
    {NoTable,
     Table(ScoreColumns, <<ScoredText(900, "positive")>>),
     Table(ScoreColumns, <<ScoredText(NaN, "positive")>>),
     Table(ScoreColumns, <<ScoredText(900, "mixed")>>)}

\* sentiment_by_area_business_with_coords.csv: missing, in Madison, outside
\* of it or without latitude
CoordinateFiles ==
    {NoTable} \cup
    {Table({"location_tag", "lat", "lon"},
           <<[location_tag |-> "capitol square", lat |-> lat, lon |-> 0 - 894]>>) :
        lat \in {431, 500, NaN}}

\* A business_scores.csv: missing, valid, with a saturation_score above 1 or
\* without latitude
BusinessScoreFiles ==
    {NoTable} \cup
    {Table({"id", "business_type", "saturation_score", "lat", "lon"},
           <<[id |-> 1, business_type |-> "coffee shop", saturation_score |-> sat,
              lat |-> lat, lon |-> 0 - 894]>>) :
        <<sat, lat>> \in {<<800, 431>>, <<1200, 431>>, <<800, NaN>>}}

Unvalidated == Table({}, << >>)

\* The directories: the three validated files and the business_scores.csv
\* of the project root vary; of the other files the trends file may be missing
FileSystems ==
    {[filepath \in SeqToSet(FILES_TO_CHECK) \cup {"business_scores.csv"} |->
         CASE filepath = "data/processed/sentiment_scores_raw.csv" -> raw
           [] filepath = "data/processed/sentiment_by_area_business_with_coords.csv" -> coords
           [] filepath = "data/business_scores.csv" -> scores
           [] filepath = "business_scores.csv" -> root
           [] filepath = "data/processed/trends_demand_score.json" -> trends
           [] OTHER -> Unvalidated] :
        raw \in RawScoreFiles, coords \in CoordinateFiles,
        scores \in BusinessScoreFiles, root \in BusinessScoreFiles,
        trends \in {NoTable, Unvalidated}}

InitCheck ==
    /\ files \in FileSystems
    /\ report = NoReport
    /\ lots = << >>
    /\ business_df = << >>
    /\ sentiment_df = << >>
    /\ transcript_df = Missing
    /\ trends_list = << >>
    /\ final_scores = NoTable
    /\ stage = "input"
    /\ outcome = "none"
    /\ probe = NoProbe
    /\ match = NoMatch
    /\ crs = Projected
    /\ listing = NoListing
    /\ assigned_category = ""

\* python scripts/check_pipeline.py
CheckPipelineMain ==
    /\ report' = check_pipeline(files)
    /\ stage' = "check_pipeline"
    /\ outcome' = "ok"
    /\ UNCHANGED <<Inputs, final_scores, probe, match, crs, listing, assigned_category,
                   files>>

NextCheck == CheckPipelineMain

SpecCheck == InitCheck /\ [][NextCheck]_vars



----------------------------------------------------------------------------
\* Properties

Rows == final_scores.rows
RowIndex == 1..Len(Rows)
Emitted == stage = "probability_score" /\ outcome = "ok"
LotIdsOf(df) == {df[i].id : i \in 1..Len(df)}
Demand(bt) == trends_data(trends_list)[bt]
Scored == {bt \in DOMAIN trends_data(trends_list) : Demand(bt) > 0}
RowsOf(id, bt) == {i \in RowIndex : Rows[i].id = id /\ Rows[i].business_type = bt}

\* C1: the fusion stage emits exactly one row for each pair (lot id, business
\* type with demand_score > 0) and no other row, also when business_scores
\* holds several rows per lot id.
C1_OneRowPerPair ==
    Emitted =>
        /\ \A id \in LotIdsOf(business_df), bt \in Scored : Cardinality(RowsOf(id, bt)) = 1
        /\ \A i \in RowIndex : Rows[i].id \in LotIdsOf(business_df)
                               /\ Rows[i].business_type \in Scored

\* C2: with base score, both sentiments and the trend score in [0,1], every
\* final_probability of the fusion stage lies in [25, 90].
C2_CalibrationInterval ==
    final_scores.exists =>
        \A i \in RowIndex :
            (/\ Rows[i].base_business_score \in 0..1000
             /\ Rows[i].reddit_sentiment_score \in 0..1000
             /\ Rows[i].transcript_sentiment_score \in 0..1000
             /\ Rows[i].trends_demand_score \in 0..1000)
            => Rows[i].final_probability \in 250..900

\* C2 witness: a row fused from four inputs of 1.0 sits on the upper bound
C2_Witness ==
    /\ Emitted
    /\ \E i \in RowIndex :
        /\ Rows[i].base_business_score = 1000
        /\ Rows[i].reddit_sentiment_score = 1000
        /\ Rows[i].transcript_sentiment_score = 1000
        /\ Rows[i].trends_demand_score = 1000
        /\ Rows[i].final_probability = 900

\* C3: a missing input (null business_score, null positive_ratio, no demand
\* score) is replaced by its neutral default, so no emitted row has a null
\* final_probability.
C3_NoNullProbability ==
    Emitted => \A i \in RowIndex : Rows[i].final_probability # NaN

\* C4: the base_business_score of the final row of (lot L, category C) is the
\* score business_scores holds for category C at lot L, also in the row kept
\* by fix_final_scores.
HasCategoryRows == \A i \in 1..Len(business_df) : business_df[i].business_type # ""

C4_PerCategoryBase ==
    (final_scores.exists /\ HasCategoryRows) =>
        \A i \in RowIndex :
            \E k \in 1..Len(business_df) :
                /\ business_df[k].id = Rows[i].id
                /\ business_df[k].business_type = Rows[i].business_type
                /\ business_df[k].business_score = Rows[i].base_business_score

\* C5: no output row carries a business type whose demand_score is 0, and
\* every type with demand_score > 0 is scored for every lot.
C5_ZeroDemandExcluded ==
    final_scores.exists =>
        /\ \A i \in RowIndex : Demand(Rows[i].business_type) # 0
        /\ \A id \in LotIdsOf(business_df), bt \in Scored : RowsOf(id, bt) # {}

\* C5 witness: cafes are in demand and scored for both lots, bars are not
C5_Witness ==
    /\ Emitted
    /\ Demand("coffee shop") > 0 /\ Demand("bar") = 0
    /\ \A id \in LotIdsOf(business_df) : RowsOf(id, "coffee shop") # {}
    /\ Cardinality(LotIdsOf(business_df)) > 1

\* C6: the published table is sorted by non-increasing final_probability
\* after every stage that writes it, in any order of the stages.
C6_SortedDescending == final_scores.exists => IsRanked(Rows)

\* C7: with no record of the requested business type, an empty corpus
\* included, find_closest_sentiment returns ("no_data", 0.5, 999.0) and
\* never raises.
Candidates == {i \in 1..Len(sentiment_df) : sentiment_df[i].business_type = probe.business_type}
Called == stage = "find_closest_sentiment"

C7_NoCandidatesNeutral ==
    (Called /\ Candidates = {}) => match = Returned("no_data", 10000, 999)

\* The record the matcher must select: minimum distance, first on ties
DistanceTo(i) == Abs(sentiment_df[i].lat - probe.lat)
Nearest ==
    CHOOSE i \in Candidates :
        \A j \in Candidates :
            DistanceTo(i) < DistanceTo(j) \/ (DistanceTo(i) = DistanceTo(j) /\ i <= j)
MatchedRatio == sentiment_df[Nearest].positive_ratio
Deviation(x) == Abs(x - 10000)
Decays == Called /\ Candidates # {} /\ MatchedRatio # NaN /\ match.raised = ""

\* C8: for a matched positive_ratio s the result is s up to 15 km, lies
\* between s and 0.5, is exactly 0.5 from 35 km on, and its deviation from
\* 0.5 never grows with the distance.
C8_ConfidenceDecay ==
    /\ [](Decays =>
            /\ match.distance <= 15 => match.sentiment = 20 * MatchedRatio
            /\ match.distance >= 35 => match.sentiment = 10000
            /\ match.sentiment >= Min2(20 * MatchedRatio, 10000)
            /\ match.sentiment <= Max2(20 * MatchedRatio, 10000))
    /\ [][(/\ Decays /\ Decays'
           /\ MatchedRatio' = MatchedRatio
           /\ match'.distance >= match.distance)
          => Deviation(match'.sentiment) <= Deviation(match.sentiment)]_vars

\* C8 witness: a rating of 1.0 found 20 km away, strictly between 1.0 and 0.5
C8_Witness ==
    /\ Decays
    /\ MatchedRatio = 1000
    /\ match.distance = 20
    /\ match.sentiment = 17500

Blended(s, d) ==
    IF d <= 15 THEN 20 * s
    ELSE IF d >= 35 THEN 10000
    ELSE 20 * s + (d - 15) * (500 - s)

NoTranscript == ~transcript_df.exists \/ transcript_df.rows = << >>

C10_AdaptiveWeights ==
    Emitted =>
        \A i \in RowIndex :
            Rows[i].final_probability # NaN =>
                Rows[i].final_probability =
                    IF NoTranscript
                    THEN Round(25000000 + 650 * (40 * Rows[i].base_business_score
                                                 + 40 * Rows[i].reddit_sentiment_score
                                                 + 20 * Rows[i].trends_demand_score), 100000)
                    ELSE Round(25000000 + 650 * (30 * Rows[i].base_business_score
                                                 + 25 * Rows[i].reddit_sentiment_score
                                                 + 25 * Rows[i].transcript_sentiment_score
                                                 + 20 * Rows[i].trends_demand_score), 100000)

----------------------------------------------------------------------------
\* Properties of the competitive-analysis stage

Recommended == stage = "calculate_recommendations" /\ outcome = "ok"
Scaled == stage = "calculate_business_score" /\ outcome = "ok"
Composed == Recommended \/ Scaled
Scores == 1..Len(business_df)
LotOf(id) == lots[CHOOSE i \in 1..Len(lots) : lots[i].id = id]
ScoresOf(id) == {i \in Scores : business_df[i].id = id}
\* The competitors a row is about: cafes in the one-row-per-lot table
CountFor(row) ==
    CompetitorCount(LotOf(row.id),
                    IF row.business_type = "" THEN "coffee shop" ELSE row.business_type)
StepTable(count) ==
    CASE count = 0 -> 1000
      [] count = 1 -> 700
      [] count = 2 -> 300
      [] OTHER -> 0

\* C11: in every business-scores table produced, saturation_score is the step
\* table of the competitor count: 0 -> 1.0, 1 -> 0.7, 2 -> 0.3, 3 or more -> 0.0.
C11_SaturationStepTable ==
    Composed =>
        \A i \in Scores :
            business_df[i].saturation_score = StepTable(CountFor(business_df[i]))

KnownTaxes(lot) ==
    {lot.parcel_taxes[k] : k \in 1..Len(lot.parcel_taxes)} \ {NaN}
Highest(values) == CHOOSE v \in values : \A w \in values : v >= w

\* C12: after the tax join one row is retained per lot id, and it carries the
\* highest TotalTaxes of the lot's matches; a match without a tax value is
\* retained only when no match has one.
C12_HighestTaxRetained ==
    Recommended =>
        \A i \in 1..Len(lots) :
            LET kept == {k \in 1..Len(TaxJoin(lots)) : TaxJoin(lots)[k].id = lots[i].id}
            IN  /\ Cardinality(kept) = 1
                /\ \A k \in kept :
                       TaxJoin(lots)[k].TotalTaxes =
                           IF KnownTaxes(lots[i]) = {} THEN NaN
                           ELSE Highest(KnownTaxes(lots[i]))

\* C12 witness: a lot matched by two taxed parcels, the lower listed first,
\* or by a parcel without tax value listed before a taxed one
C12_Witness ==
    /\ Recommended
    /\ \E i \in 1..Len(lots) :
           /\ Len(lots[i].parcel_taxes) > 1
           /\ lots[i].parcel_taxes[1] # Highest(KnownTaxes(lots[i]))
    /\ \E i \in 1..Len(lots) :
           Len(lots[i].parcel_taxes) > 1 /\ lots[i].parcel_taxes[1] = NaN

NoParcel(lot) == lot.parcel_taxes = << >>
NoTract(lot) == lot.tract_incomes = << >>
Enriched == EnrichLots(lots, City)
IsScoreNull(row) ==
    \/ row.saturation_score = NaN \/ row.traffic_score = NaN
    \/ row.demo_score = NaN \/ row.business_score = NaN

\* C13: a lot on no parcel gets the citywide average tax and upkeep penalty
\* 0, a lot in no tract gets the citywide average income and demographic
\* bonus 0, and none of its scores is null.
C13_CitywideFallback ==
    Recommended =>
        \A k \in 1..Len(Enriched) :
            LET lot == LotOf(Enriched[k].id)
            IN  /\ NoParcel(lot) =>
                       /\ Enriched[k].TotalTaxes = City.avg_city_tax
                       /\ upkeep_penalty(Enriched[k], City) = 0
                /\ NoTract(lot) =>
                       /\ Enriched[k].Median_Income = City.avg_city_income
                       /\ demo_bonus(Enriched[k], City) = 0
                /\ (NoParcel(lot) \/ NoTract(lot)) =>
                       /\ ScoresOf(lot.id) # {}
                       /\ \A i \in ScoresOf(lot.id) : ~IsScoreNull(business_df[i])

\* C13 witness: a scored lot on no parcel and in no tract
C13_Witness ==
    /\ Recommended
    /\ \E i \in 1..Len(lots) :
           NoParcel(lots[i]) /\ NoTract(lots[i]) /\ ScoresOf(lots[i].id) # {}

LoadedBy(s) ==
    IF s = "calculate_business_score" THEN {"Lots", "Business", "Census"}
    ELSE LayerNames
InSomeTract == \E i \in 1..Len(lots) : ~NoTract(lots[i])

\* C14: spatial normalization does not fail on a layer without reference
\* system: each such layer is taken as EPSG:4326, and after the stage every
\* layer it loads is in EPSG:32616.
C14_MissingCrsAssumed ==
    (stage \in {"calculate_recommendations", "calculate_business_score"} /\ InSomeTract) =>
        /\ outcome = "ok"
        /\ \A n \in LoadedBy(stage) : crs[n] = target_crs

\* C15: the per-category composer emits one record per pair (lot, category)
\* for every category of the lexicon but "general business", which stays in
\* the lexicon and gets no record.
C15_CrossProductWithoutCatchAll ==
    Recommended =>
        /\ "general business" \in SeqToSet(CATEGORIES)
        /\ \A i \in 1..Len(lots), c \in SeqToSet(CATEGORIES) :
               Cardinality({k \in ScoresOf(lots[i].id) : business_df[k].business_type = c})
                   = IF c = "general business" THEN 0 ELSE 1

\* The texts of a listing in which keywords are looked for: its name and its
\* amenity, shop, leisure and healthcare tags, where present
FieldsOf(row) ==
    {lower(row[f].chars) :
        f \in {g \in {"name", "amenity", "shop", "leisure", "healthcare"} : ~row[g].null}}
Matching(row) ==
    {c \in 1..Len(Lexicon) :
        \E k \in 1..Len(Lexicon[c].keywords), text \in FieldsOf(row) :
            Occurs(lower(Lexicon[c].keywords[k]), text)}

\* C16: categorize_business returns the first category, in lexicon order,
\* with a keyword occurring, whatever the case, in the listing's name or in
\* one of its amenity, shop, leisure and healthcare tags, and "general
\* business" when no keyword occurs in any of them.
C16_FirstKeywordWins ==
    stage = "categorize_business" =>
        assigned_category =
            IF Matching(listing) = {} THEN "general business"
            ELSE Lexicon[CHOOSE c \in Matching(listing) :
                             \A d \in Matching(listing) : c <= d].category

\* C17: the additive score is clamped into [5, 98], with upkeep penalty in
\* [0, 20] and both bonuses in [0, 15]; the emitted business_score lies in
\* [0.05, 0.98].
C17_ClampedScore ==
    Recommended =>
        /\ \A k \in 1..Len(Enriched) :
               /\ upkeep_penalty(Enriched[k], City) \in 0..200
               /\ pop_bonus(Enriched[k]) \in 0..150
               /\ demo_bonus(Enriched[k], City) \in 0..150
               /\ \A c \in SeqToSet(CATEGORIES) : prob(Enriched[k], c, City) \in 50..980
        /\ \A i \in Scores : business_df[i].business_score \in 50..980

\* C17 witness: one score raised to the floor and one cut at the ceiling
C17_Witness ==
    /\ Recommended
    /\ \E i \in Scores : /\ business_df[i].business_score = 50
                         /\ CountFor(business_df[i]) >= 5
    /\ \E i \in Scores : /\ business_df[i].business_score = 980
                         /\ pop_bonus(LotOf(business_df[i].id)) = 150

MaxTraffic ==
    Highest({Within400(lots[i]) : i \in 1..Len(lots)})

\* C18: in the linear-blend composer business_score is the mean of
\* saturation_score, traffic_score and demo_score and lies in [0, 1]; a lot
\* with no competitor and the highest traffic count has saturation 1.0 and
\* traffic_score 1.0.
C18_MeanOfThree ==
    Scaled =>
        \A i \in Scores :
            /\ business_df[i].business_score \in 0..1000
            /\ business_df[i].business_score =
                   Round(business_df[i].saturation_score + business_df[i].traffic_score
                         + business_df[i].demo_score, 3)
            /\ (/\ CountFor(business_df[i]) = 0
                /\ Within400(LotOf(business_df[i].id)) = MaxTraffic)
               => /\ business_df[i].saturation_score = 1000
                  /\ business_df[i].traffic_score = 1000

\* C19: every lot id of the vacant-lot layer has exactly one row in the
\* result of calculate_business_score, whatever the number of tracts the lot
\* lies within.
C19_NoLotDroppedOrMultiplied ==
    Scaled => \A i \in 1..Len(lots) : Cardinality(ScoresOf(lots[i].id)) = 1

\* C20: every traffic_score of the linear-blend composer is a number in
\* [0, 1], the min-max scaling of the traffic counts where a lot with no
\* listing in its buffer counts 0; the highest count scores 1.0 unless all
\* counts are equal.
C20_TrafficScaled ==
    Scaled =>
        \A i \in Scores :
            LET counts == {Within400(lots[k]) : k \in 1..Len(lots)}
                lowest == CHOOSE v \in counts : \A w \in counts : v <= w
                count == Within400(LotOf(business_df[i].id))
            IN  /\ business_df[i].traffic_score \in 0..1000
                /\ business_df[i].traffic_score =
                       IF MaxTraffic = lowest THEN 0
                       ELSE Round(1000 * (count - lowest), MaxTraffic - lowest)

----------------------------------------------------------------------------
\* Properties of the distance, the matched locations and the repair stages

Located(corpus, bt) ==
    {i \in 1..Len(corpus) : /\ corpus[i].business_type = bt
                            /\ ~IsNull(corpus[i].lat) /\ ~IsNull(corpus[i].lon)}
IsMatchOf(tag, corpus, bt) ==
    /\ tag # "None"
    /\ tag = "no_data" <=> Located(corpus, bt) = {}
    /\ tag # "no_data" =>
           \E i \in 1..Len(corpus) : /\ corpus[i].business_type = bt
                                     /\ corpus[i].location_tag = tag

\* C23: in every emitted row matched_reddit_location and
\* matched_transcript_location are not null: each is "no_data" or the
\* location_tag of a record of its corpus for the row's business type, and it
\* is "no_data" exactly when the corpus has no such record, records without
\* coordinates not counting.
C23_MatchedLocations ==
    Emitted =>
        \A i \in RowIndex :
            /\ IsMatchOf(Rows[i].matched_reddit_location, sentiment_df,
                         Rows[i].business_type)
            /\ IsMatchOf(Rows[i].matched_transcript_location, transcript_df.rows,
                         Rows[i].business_type)

\* C24: after the tax join and the census join every lot id appears once in
\* the lot table, so business_scores.csv holds one row per (lot id,
\* category), also for a lot within several census tracts.
C24_OneRowPerLotAndCategory ==
    Recommended =>
        /\ \A i \in 1..Len(lots) :
               Cardinality({k \in 1..Len(Enriched) : Enriched[k].id = lots[i].id}) = 1
        /\ \A i \in 1..Len(lots), c \in SeqToSet(CATEGORIES) :
               Cardinality({k \in ScoresOf(lots[i].id) :
                               business_df[k].business_type = c}) = 1

CalibrationInterval == 250..900

\* C25: every final_probability of the published table lies in the one
\* calibration interval [25, 90] after any sequence of the stages that write
\* it, the values recomputed by fix_nulls included.
C25_OneCalibrationInterval ==
    final_scores.exists =>
        \A i \in RowIndex :
            Rows[i].final_probability # NaN =>
                Rows[i].final_probability \in CalibrationInterval

HasNull(r) == r.final_probability = NaN \/ r.base_business_score = NaN

\* C26: run on the table written by probability_score.main, fix_nulls.main
\* completes without error and leaves no row with a null final_probability
\* or a null base_business_score.
C26_FixNullsCompletes ==
    (stage = "fix_nulls" /\ final_scores.exists /\ final_scores.columns = FusionColumns) =>
        /\ outcome \in {"ok", "noop"}
        /\ \A i \in RowIndex : ~HasNull(Rows[i])

\* C27: fix_nulls.main changes only rows with a null final_probability or
\* base_business_score; no row is added, removed or reordered; without null
\* rows nothing is rewritten, so a run after a successful run changes nothing.
C27_OnlyNullRowsChange ==
    [][stage' = "fix_nulls" =>
          LET before == final_scores.rows
              after == final_scores'.rows
          IN  /\ Len(after) = Len(before)
              /\ \A i \in 1..Len(before) :
                     /\ ~HasNull(before[i]) => after[i] = before[i]
                     /\ after[i].id = before[i].id
                     /\ after[i].business_type = before[i].business_type
              /\ (\A i \in 1..Len(before) : ~HasNull(before[i])) =>
                     final_scores' = final_scores /\ outcome' # "ok"
              /\ (stage = "fix_nulls" /\ outcome = "ok") => final_scores' = final_scores]_vars

\* C27 witness: a repaired table with a row that had a null and one that had not
C27_Witness ==
    /\ stage = "fix_nulls" /\ outcome = "ok"
    /\ \E i \in RowIndex : Rows[i].sentiment_score = NaN /\ Rows[i].final_probability # NaN
    /\ \E i \in RowIndex : Rows[i].final_probability = 632

\* C28: after fix_final_scores.main each pair (id, business_type) has one row
\* if it had at least one and none otherwise; the row kept is the pair's
\* first in file order, which in a table sorted by descending
\* final_probability is the pair's row with the highest final_probability.
C28_FirstOccurrenceKept ==
    [][(stage' = "fix_final_scores" /\ outcome' = "ok") =>
          LET before == final_scores.rows
              after == final_scores'.rows
              PairOf(r) == <<r.id, r.business_type>>
              pairs == {PairOf(before[i]) : i \in 1..Len(before)}
          IN  /\ \A k \in 1..Len(after) : PairOf(after[k]) \in pairs
              /\ \A p \in pairs :
                     LET occ == {i \in 1..Len(before) : PairOf(before[i]) = p}
                         kept == {k \in 1..Len(after) : PairOf(after[k]) = p}
                         first == CHOOSE i \in occ : \A j \in occ : i <= j
                     IN  /\ Cardinality(kept) = 1
                         /\ \A k \in kept :
                                /\ after[k] = before[first]
                                /\ IsRanked(before) =>
                                       \A i \in occ :
                                           ~Before(before[i].final_probability,
                                                   after[k].final_probability)]_vars

\* C28 witness: a table written from three category rows per lot, with its
\* duplicates removed
C28_Witness ==
    /\ stage = "fix_final_scores" /\ outcome = "ok"
    /\ HasCategoryRows
    /\ Len(Rows) > 0
    /\ Len(Rows) < Len(business_df) * Cardinality(Scored)

\* C29: the rationale of every (lot, category) record is not empty: it
\* starts with the one competition phrase, "High demand" iff the competitor
\* count is 0 and else "Moderate competition" with the count, followed by the
\* foot-traffic phrase iff pop_bonus > 10, the demographic phrase iff
\* demo_bonus > 10 and the "Caution" phrase iff upkeep_penalty > 10.
C29_Rationale ==
    Recommended =>
        \A k \in 1..Len(Enriched), c \in SeqToSet(CATEGORIES) :
            LET lot == Enriched[k]
                reason == reason_parts(lot, c, City)
                count == IF c = "general business" THEN 0 ELSE lot.category_counts[c]
                Has(p) == \E j \in 1..Len(reason) : reason[j].phrase = p
                At(p) == CHOOSE j \in 1..Len(reason) : reason[j].phrase = p
            IN  /\ Len(reason) >= 1
                /\ reason[1] = [phrase |-> IF count = 0 THEN "High demand"
                                           ELSE "Moderate competition",
                                category |-> c, count |-> count]
                /\ \A j \in 2..Len(reason) :
                       reason[j].phrase \notin {"High demand", "Moderate competition"}
                /\ \A i \in 1..Len(reason), j \in 1..Len(reason) :
                       i # j => reason[i].phrase # reason[j].phrase
                /\ Has("Excellent foot traffic") <=> 3 * total_nearby(lot) > 100
                /\ Has("Perfect demographic fit") <=> demo_bonus(lot, City) > 100
                /\ Has("Caution") <=> upkeep_penalty(lot, City) > 100
                /\ (Has("Excellent foot traffic") /\ Has("Perfect demographic fit")) =>
                       At("Excellent foot traffic") < At("Perfect demographic fit")
                /\ (Has("Perfect demographic fit") /\ Has("Caution")) =>
                       At("Perfect demographic fit") < At("Caution")
                /\ (Has("Excellent foot traffic") /\ Has("Caution")) =>
                       At("Excellent foot traffic") < At("Caution")

\* C29 witness: a lot with one competitor of a category whose rationale
\* holds all four phrases
C29_Witness ==
    /\ Recommended
    /\ \E k \in 1..Len(Enriched), c \in SeqToSet(CATEGORIES) :
           /\ Len(reason_parts(Enriched[k], c, City)) = 4
           /\ reason_parts(Enriched[k], c, City)[1].count = 1

\* What check_pipeline is to validate, file by file
Checked(filepath) == files[filepath]
RawScoresValid ==
    LET df == Checked("data/processed/sentiment_scores_raw.csv")
    IN  \A i \in 1..Len(df.rows) :
            /\ ~IsNull(df.rows[i].positive_score)
            /\ ~IsNull(df.rows[i].neutral_score)
            /\ ~IsNull(df.rows[i].negative_score)
            /\ df.rows[i].sentiment_label \in {"positive", "neutral", "negative"}
            /\ df.rows[i].business_type \in SeqToSet(EXPECTED_BUSINESS_TYPES)
InMadison(row) ==
    /\ ~IsNull(row.lat) /\ row.lat >= 429 /\ row.lat <= 433
    /\ ~IsNull(row.lon) /\ row.lon >= 0 - 896 /\ row.lon <= 0 - 891
CoordinatesValid ==
    LET df == Checked("data/processed/sentiment_by_area_business_with_coords.csv")
    IN  \A i \in 1..Len(df.rows) : InMadison(df.rows[i])
BusinessScoresValid ==
    LET df == Checked("data/business_scores.csv")
    IN  \A i \in 1..Len(df.rows) :
            /\ InMadison(df.rows[i])
            /\ df.rows[i].saturation_score \in 0..1000

\* C30: check_pipeline reports "PIPELINE READY" only if every file of
\* FILES_TO_CHECK exists and every validation was run and passed; a missing
\* file, or a section skipped because its file could not be loaded, gives
\* "PIPELINE NOT READY".
C30_ReadyOnlyIfVerified ==
    stage = "check_pipeline" =>
        /\ report.verdict \in {"PIPELINE READY", "PIPELINE NOT READY"}
        /\ report.verdict = "PIPELINE READY" =>
               /\ \A k \in 1..Len(FILES_TO_CHECK) : Checked(FILES_TO_CHECK[k]).exists
               /\ RawScoresValid
               /\ CoordinatesValid
               /\ BusinessScoresValid

====
